---- MODULE Spec2Model ----
(***************************************************************************)
(* A model of the Orb trackball firmware: the sensor bus protocol and      *)
(* bring-up of main.c, the axis accumulators of axes.c and the HID report  *)
(* callback (with its button debouncer) of usb.c.                          *)
(*                                                                         *)
(* Numbers.  The accumulators are C doubles.  They are modelled in exact   *)
(* rational arithmetic: axes[k] holds the numerator of the accumulator in  *)
(* units of 1/Num(k) raw counts, where the sensitivity of axis k is        *)
(* Num(k)/Den(k) (0.012 = 3/250, 0.35 = 7/20).  Floating-point rounding is *)
(* not modelled.  Delays are integers, in nanoseconds.                     *)
(***************************************************************************)
EXTENDS Integers, Sequences, FiniteSets, TLC

VARIABLES
    \* ---- axes.c
    axes,             \* static double axes[4], as numerators (see above)
    \* ---- usb.c, CALLBACK_HID_Device_CreateHIDReport
    old_buttons,      \* static uint8_t old_buttons: the stable mask
    new_buttons,      \* static uint8_t new_buttons: the candidate
    debounce_count,   \* static uint8_t debounce_count
    set,              \* static bool set (feature report already produced)
    report,           \* *ReportData of the last input report: buttons, axes
    ret,              \* return value of the last input-report call
    changed,          \* the last input-report call took the branch of line 598
    \* ---- main.c
    pc,               \* position in main() and reset()
    i,                \* loop index of the for loops of reset()
    ncs,              \* level of PINSS: 0 asserted (selected), 1 released
    bus,              \* events on the bus since start / since the tick began
    srom_data,        \* the firmware image of srom.h
    miso,             \* the burst frame the sensor offers in this tick
    v,                \* uint8_t v[N], the bytes clocked in so far
    delta_x,
    delta_y,
    tick,             \* number of loop iterations begun
    resolution,       \* RESOLUTION as config.h defines it for this build
    \* ---- history (observers only; no action reads them to decide)
    rawSince,         \* per axis: raw deltas added since the last get_axes
    resBefore,        \* per axis: axes[k] as the last get_axes left it
    sumRaw,           \* per axis: all raw deltas added
    sumRep,           \* per axis: all integer deltas reported
    ncalls,           \* number of update_axes / get_axes calls made
    lastOp,           \* "none", "update" or "get"
    nonNeg,           \* per axis: every raw delta added so far was >= 0
    ref,              \* per axis: the total of an accumulator that flips on adding
    refInt,           \* per axis: the integer part that accumulator last took
    lastB,            \* raw mask sampled by the last poll
    runLen,           \* number of consecutive polls that sampled lastB (capped)
    runOld,           \* old_buttons when the current run of lastB began
    npolls,           \* number of input-report polls (capped)
    nchanges,         \* number of polls that changed old_buttons (capped)
    shape,            \* shape of the whole raw mask history, see Shape
    prevOld,          \* old_buttons as the last poll found it
    trail,            \* the steps of the current tick, in the order taken
    scrollPin         \* level of the scroll pin as line 248 last sampled it

axesVars == <<axes>>
hidVars == <<old_buttons, new_buttons, debounce_count, set, report, ret, changed>>
mainVars == <<pc, i, ncs, bus, srom_data, miso, v, delta_x, delta_y, tick, resolution>>
axesHist == <<rawSince, resBefore, sumRaw, sumRep, ncalls, lastOp, nonNeg, ref, refInt>>
hidHist == <<lastB, runLen, runOld, npolls, nchanges, shape, prevOld>>
mainHist == <<trail, scrollPin>>
vars == <<axesVars, hidVars, mainVars, axesHist, hidHist, mainHist>>

----------------------------------------------------------------------------
(* Bounds of the model. *)

\* update_axes / get_axes calls explored by SpecAxes
MaxCalls == 6

\* iterations of the poll loop explored by Spec
MaxTicks == 2

\* longest firmware image explored by Spec
MaxSromLen == 3

----------------------------------------------------------------------------
(* Integer helpers. *)

Abs(n) == IF n < 0 THEN -n ELSE n

\* TruncDiv rounding down instead of towards zero
TruncDiv_Floor(a, b) == a \div b

\* C's integer conversion of a real: towards zero
TruncDiv(a, b) == IF a >= 0 THEN a \div b ELSE -((-a) \div b)

Int16 == -32768..32767

Wrap16(n) == ((n + 32768) % 65536) - 32768

Sat16(n) == IF n > 32767 THEN 32767 ELSE IF n < -32768 THEN -32768 ELSE n

\* (int16_t)ix for a double ix holding the integer n.  In range the value is
\* kept.  Out of range the conversion is undefined (C11 6.3.1.4): builds
\* produce the low 16 bits of a wider conversion, or a saturated value.
CastInt16(n) == IF n \in Int16 THEN {n} ELSE {Wrap16(n), Sat16(n)}

----------------------------------------------------------------------------
(* config.h *)

\* 0.012 and 0.35 as fractions <<numerator, denominator>>
POINTER_SENSITIVITY == <<3, 250>>
WHEEL_SENSITIVITY_X == <<7, 20>>
WHEEL_SENSITIVITY_Y == <<7, 20>>

DEBOUNCE_INTERVAL == 5

\* PIND bit numbers of the buttons
BUTTON_GROUND == 6
BUTTON_A == 4
BUTTON_B == 5
BUTTON_C == 2
BUTTON_D == 3
BUTTON_E == 1

\* const uint8_t buttons[] = {BUTTONS}, indexed from 0
BUTTONS == [n \in 0..3 |-> <<BUTTON_C, BUTTON_B, BUTTON_A, BUTTON_E>>[n + 1]]
SCROLL_BUTTON == BUTTON_D

----------------------------------------------------------------------------
(* axes.c *)

Axis == 0..3

\* the coefficient get_axes applies to axes[k]
Sensitivity(k) ==
    CASE k = 0 -> POINTER_SENSITIVITY
      [] k = 1 -> POINTER_SENSITIVITY
      [] k = 2 -> WHEEL_SENSITIVITY_X
      [] k = 3 -> WHEEL_SENSITIVITY_Y

Num(k) == Sensitivity(k)[1]
Den(k) == Sensitivity(k)[2]

\* get_axes negates axes[1] only (lines 24 and 37)
Flip(k) == IF k = 1 THEN -1 ELSE 1

\* update_axes with the two pairs taken for each other
update_axes_Swapped(dx, dy, scroll) ==
    LET b == IF scroll THEN 0 ELSE 2
    IN  axes' = [axes EXCEPT ![b] = @ + Num(b) * dx,
                             ![b + 1] = @ + Num(b + 1) * dy]

\* axes[scroll * 2 + 0] += delta_x; axes[scroll * 2 + 1] += delta_y;
\* a raw count d is d * Num(k) in the units of axes[k]
update_axes(dx, dy, scroll) ==
    LET b == IF scroll THEN 2 ELSE 0
    IN  axes' = [axes EXCEPT ![b] = @ + Num(b) * dx,
                             ![b + 1] = @ + Num(b + 1) * dy]

\* x = SENSITIVITY * (+-)axes[k], as a numerator over Den(k)
Scaled(a, k) == Flip(k) * a[k]

\* modf(x, &ix): the integer part, towards zero ...
IntPart(a, k) == TruncDiv(Scaled(a, k), Den(k))

\* FracPart keeping the whole of x, integer part included
FracPart_Whole(a, k) == Scaled(a, k)

\* ... and the fractional part, with the sign of x, as a numerator over Den(k)
FracPart(a, k) == Scaled(a, k) - IntPart(a, k) * Den(k)

\* Carry without the second negation of line 37
Carry_Unflipped(a, k) == FracPart(a, k)

\* axes[k] = (+-)fx / SENSITIVITY: as a numerator over Num(k) it is (+-)fx's
Carry(a, k) == Flip(k) * FracPart(a, k)

\* the arrays p[0..3] get_axes can write for the accumulators a
AxesOut(a) ==
    LET cand == UNION {CastInt16(IntPart(a, k)) : k \in Axis}
    IN  {p \in [Axis -> cand] : \A k \in Axis : p[k] \in CastInt16(IntPart(a, k))}

\* AnyNonzero looking at p[0] only
AnyNonzero_FirstOnly(p) == p[0] # 0

\* for (i...) if (p[i]) return true; return false;
AnyNonzero(p) == \E k \in Axis : p[k] # 0

\* get_axes(p): writes p, carries the remainders; its result is AnyNonzero(p)
get_axes(p) ==
    /\ p \in AxesOut(axes)
    /\ axes' = [k \in Axis |-> Carry(axes, k)]

----------------------------------------------------------------------------
(* usb.c: CALLBACK_HID_Device_CreateHIDReport *)

Bit(n, k) == (n \div (2 ^ k)) % 2

\* b |= (((PIND & (1 << buttons[i])) == 0) << i), i = 0..sizeof(buttons)-1
ReadButtons(pind) ==
    LET bit(n) == IF Bit(pind, BUTTONS[n]) = 0 THEN 2 ^ n ELSE 0
    IN  bit(0) + bit(1) + bit(2) + bit(3)

\* Recount without the restart of line 595
Recount_NoRestart(b) == (debounce_count + 1) % 256

\* Recount giving the candidate up on a sample that differs from it
Recount_GivesUp(b) == IF b = new_buttons THEN (debounce_count + 1) % 256 ELSE 0

\* lines 592-596: the counter after a sample b taken while debouncing
Recount(b) == IF b = new_buttons THEN (debounce_count + 1) % 256 ELSE 1

\* Stable with >= for >
Stable_OneEarly(c) == c >= DEBOUNCE_INTERVAL

\* line 598
Stable(c) == c > DEBOUNCE_INTERVAL

\* Debounce without the test of line 585: any sample starts a candidate
Debounce_AnyStarts(b) ==
    IF debounce_count = 0
    THEN /\ new_buttons' = b /\ debounce_count' = 1
         /\ UNCHANGED old_buttons
         /\ changed' = FALSE
    ELSE IF Stable(Recount(b))
         THEN /\ old_buttons' = new_buttons
              /\ debounce_count' = 0
              /\ UNCHANGED new_buttons
              /\ changed' = TRUE
         ELSE /\ debounce_count' = Recount(b)
              /\ UNCHANGED <<old_buttons, new_buttons>>
              /\ changed' = FALSE

\* lines 582-605: the debouncer's step on the sample b
Debounce(b) ==
    IF debounce_count = 0
    THEN /\ IF b # old_buttons
            THEN new_buttons' = b /\ debounce_count' = 1
            ELSE UNCHANGED <<new_buttons, debounce_count>>
         /\ UNCHANGED old_buttons
         /\ changed' = FALSE
    ELSE IF Stable(Recount(b))
         THEN /\ old_buttons' = new_buttons
              /\ debounce_count' = 0
              /\ UNCHANGED new_buttons
              /\ changed' = TRUE
         ELSE /\ debounce_count' = Recount(b)
              /\ UNCHANGED <<old_buttons, new_buttons>>
              /\ changed' = FALSE

\* the feature-report branch, lines 549-562
FeatureReport ==
    /\ set' = TRUE
    /\ UNCHANGED <<axes, old_buttons, new_buttons, debounce_count, report, ret, changed>>

\* the input-report branch, lines 563-607, with PIND reading pind and
\* get_axes writing p
InputReport(pind, p) ==
    /\ get_axes(p)
    /\ Debounce(ReadButtons(pind))
    /\ report' = [buttons |-> IF changed' THEN new_buttons ELSE old_buttons,
                  axes |-> p]
    /\ ret' = IF changed' THEN TRUE ELSE AnyNonzero(p)
    /\ UNCHANGED set

----------------------------------------------------------------------------
(* main.c: delays (ns), registers, bus primitives *)

T_STDWN == 500
T_WAKEUP == 50000000
T_SRAD == 160000
T_SWWR == 180000
T_SRWR == 20000
T_SRAD_MOTBR == 35000
T_NCS_SCLK == 120
T_SCLK_NCS_READ == 120
T_SCLK_NCS_WRITE == 35000

MOTION == 2
RESOLUTION_L == 14
RESOLUTION_H == 15
CONFIG2 == 16
ANGLE_TUNE == 17
SROM_ENABLE == 19
SROM_ID == 42
POWER_UP_RESET == 58
SHUTDOWN == 59
MOTION_BURST == 80
SROM_LOAD_BURST == 98

RESOLUTION == 16000
POINTER_ROTATION == -22

\* uint8_t v[N], N = 6 without ENABLE_CDC
N == 6

\* Or80 leaving the byte as it is
Or80_Plain(x) == x

\* x | 0x80 on a byte
Or80(x) == IF Bit(x, 7) = 1 THEN x ELSE x + 128

\* (uint8_t)x
U8(x) == x % 256

\* the events a call puts on the bus, in order
transceive(c) == << <<"xfer", c>> >>
assert_ncs == << <<"ncs", 0>> >>
deassert_ncs == << <<"ncs", 1>> >>
delay(ns) == << <<"delay", ns>> >>

read(addr) ==
    assert_ncs \o delay(T_NCS_SCLK)
    \o transceive(addr) \o delay(T_SRAD) \o transceive(0)
    \o delay(T_SCLK_NCS_READ) \o deassert_ncs
    \o delay(T_SRWR - T_SCLK_NCS_READ)

write(addr, data) ==
    assert_ncs \o delay(T_NCS_SCLK)
    \o transceive(Or80(addr)) \o transceive(data)
    \o delay(T_SCLK_NCS_WRITE) \o deassert_ncs
    \o delay(T_SWWR - T_SCLK_NCS_WRITE)

\* the level of PINSS after the events t, from the level l
RECURSIVE LevelAfter(_, _)
LevelAfter(l, t) ==
    IF t = <<>> THEN l
    ELSE LevelAfter(IF Head(t)[1] = "ncs" THEN Head(t)[2] ELSE l, Tail(t))

\* run the bus events t and continue at the place next
Run(t, next) ==
    /\ bus' = bus \o t
    /\ ncs' = LevelAfter(ncs, t)
    /\ pc' = next

----------------------------------------------------------------------------
(* Inputs: what the environment can present to the firmware. *)

\* srom.h is not part of the sources: the image is an input.  One image of
\* each length up to MaxSromLen, whose bytes differ from their neighbours
SromImages == {[k \in 1..n |-> (90 + 37 * k) % 256] : n \in 0..MaxSromLen}

\* first byte of a burst: motion bit clear (0x7f) or set (0x80)
StatusBytes == {127, 128}

\* bytes 1..N-1 of a burst: no motion; +1 / -1; the extreme deltas
\* -32768 / 32767; and 0x1234 / 0xabcd, all of whose bytes differ
SensorPayloads ==
    { <<0, 0, 0, 0, 0>>,
      <<0, 1, 0, 255, 255>>,
      <<255, 0, 128, 255, 127>>,
      <<90, 52, 18, 205, 171>> }

\* the frames the sensor can offer to a motion burst, as v[0..N-1]
Frames ==
    {[k \in 0..(N - 1) |-> IF k = 0 THEN st ELSE pl[k]] :
        st \in StatusBytes, pl \in SensorPayloads}

\* PIND: the ground pin reads low, buttons A and E are up, and buttons
\* C, B and the scroll button D are each up (1) or down (0)
PINDInputs ==
    {pd \in 0..255 :
        /\ Bit(pd, BUTTON_GROUND) = 0
        /\ Bit(pd, 7) = 1 /\ Bit(pd, 0) = 1
        /\ Bit(pd, BUTTON_A) = 1 /\ Bit(pd, BUTTON_E) = 1}

\* PIND as the poll loop meets it: as above, with button B up as well
LoopInputs == {pd \in PINDInputs : Bit(pd, BUTTON_B) = 1}

----------------------------------------------------------------------------
(* main.c: reset() and main() *)

Zero4 == [k \in Axis |-> 0]

\* the state with the image img in flash and main() at the place at,
\* whatever RESOLUTION is
InitBut(img, at) ==
    /\ axes = Zero4
    /\ old_buttons = 0 /\ new_buttons = 0 /\ debounce_count = 0
    /\ set = FALSE
    /\ report = [buttons |-> 0, axes |-> Zero4]
    /\ ret = FALSE /\ changed = FALSE
    /\ pc = at /\ i = 0
    /\ ncs = 1                       \* PORTSPI |= (1 << PINSS), line 173
    /\ bus = <<>>
    /\ srom_data = img
    /\ miso = <<>> /\ v = <<>> /\ delta_x = 0 /\ delta_y = 0
    /\ tick = 0
    /\ rawSince = Zero4 /\ resBefore = Zero4 /\ sumRaw = Zero4 /\ sumRep = Zero4
    /\ ncalls = 0 /\ lastOp = "none"
    /\ nonNeg = [k \in Axis |-> TRUE] /\ ref = Zero4 /\ refInt = Zero4
    /\ lastB = 0 /\ runLen = 0 /\ runOld = 0 /\ npolls = 0 /\ nchanges = 0
    /\ shape = [flip |-> "steady", osc |-> "empty", prevB |-> 0]
    /\ prevOld = 0
    /\ trail = <<>> /\ scrollPin = 1

\* the state with the image img in flash and main() at the place at
InitWith(img, at) ==
    /\ resolution = RESOLUTION
    /\ InitBut(img, at)

\* on entry to reset()
Init == \E img \in SromImages : InitWith(img, "shutdown")

\* what the bring-up and configuration steps leave alone
BusOnly == UNCHANGED <<axesVars, hidVars, srom_data, miso, v, delta_x, delta_y, tick,
                       resolution, axesHist, hidHist, mainHist>>

\* lines 106-110
ShutDown ==
    /\ pc = "shutdown"
    /\ Run(deassert_ncs \o delay(T_SRWR) \o write(SHUTDOWN, 182) \o delay(T_STDWN),
           "wakeup")
    /\ UNCHANGED i /\ BusOnly

\* lines 114-118
WakeUp ==
    /\ pc = "wakeup"
    /\ Run(deassert_ncs \o delay(T_SRWR) \o write(POWER_UP_RESET, 90) \o delay(T_WAKEUP),
           "drain")
    /\ i' = 2
    /\ BusOnly

\* ReadMotionRegister with the loop bound one short
ReadMotionRegister_Short ==
    /\ pc = "drain"
    /\ i < 6
    /\ Run(read(i), IF i + 1 < 6 THEN "drain" ELSE "srom_enable")
    /\ i' = i + 1
    /\ BusOnly

\* lines 122-124: one iteration of for (int i = 2; i < 7; i++) read(i)
ReadMotionRegister ==
    /\ pc = "drain"
    /\ i < 7
    /\ Run(read(i), IF i + 1 < 7 THEN "drain" ELSE "srom_enable")
    /\ i' = i + 1
    /\ BusOnly

\* lines 128-131
EnableSrom ==
    /\ pc = "srom_enable"
    /\ Run(write(CONFIG2, 0) \o write(SROM_ENABLE, 29) \o delay(10000000)
           \o write(SROM_ENABLE, 24),
           "srom_begin")
    /\ UNCHANGED i /\ BusOnly

\* lines 133-136
SromBegin ==
    /\ pc = "srom_begin"
    /\ Run(assert_ncs \o delay(T_NCS_SCLK) \o transceive(Or80(SROM_LOAD_BURST)),
           IF 0 < Len(srom_data) THEN "srom_byte" ELSE "srom_end")
    /\ i' = 0
    /\ BusOnly

\* SromByte without the + i of srom_data + i
SromByte_FirstOnly ==
    /\ pc = "srom_byte"
    /\ i < Len(srom_data)
    /\ Run(delay(15000) \o transceive(srom_data[1]),
           IF i + 1 < Len(srom_data) THEN "srom_byte" ELSE "srom_end")
    /\ i' = i + 1
    /\ BusOnly

\* lines 138-143: one iteration of the upload loop
SromByte ==
    /\ pc = "srom_byte"
    /\ i < Len(srom_data)
    /\ Run(delay(15000) \o transceive(srom_data[i + 1]),
           IF i + 1 < Len(srom_data) THEN "srom_byte" ELSE "srom_end")
    /\ i' = i + 1
    /\ BusOnly

\* lines 145-148
SromEnd ==
    /\ pc = "srom_end"
    /\ Run(delay(15000) \o deassert_ncs \o delay(200000 - 15000), "srom_id")
    /\ UNCHANGED i /\ BusOnly

\* lines 152-154
ReadSromId ==
    /\ pc = "srom_id"
    /\ Run(read(SROM_ID) \o write(CONFIG2, 0), "configure")
    /\ UNCHANGED i /\ BusOnly

\* ResolutionHigh without the shift
ResolutionHigh_Unshifted(r) == r % 256

\* (uint8_t)(r & 0xff) and (uint8_t)(r >> 8 & 0xff), lines 197-198
ResolutionLow(r) == r % 256
ResolutionHigh(r) == (r \div 256) % 256

\* lines 193-200
Configure ==
    /\ pc = "configure"
    /\ LET r == (resolution \div 50) % 65536
       IN  Run(write(RESOLUTION_L, ResolutionLow(r)) \o write(RESOLUTION_H, ResolutionHigh(r))
               \o write(ANGLE_TUNE, U8(POINTER_ROTATION)),
               "burst_enable")
    /\ UNCHANGED i /\ BusOnly

\* lines 202-211: initialize_usb and wait_for_host touch no modelled state
EnableBurst ==
    /\ pc = "burst_enable"
    /\ Run(write(MOTION_BURST, 0), "poll")
    /\ UNCHANGED i /\ BusOnly

\* Int16LE with the bytes in the other order
Int16LE_Swapped(lo, hi) == Wrap16(hi + 256 * lo)

\* *(int16_t *)(v + k) on the little-endian AVR
Int16LE(lo, hi) == Wrap16(lo + 256 * hi)

\* the v[] a burst leaves: v[0] always, the rest when the motion bit is set
Clocked(f) == IF Bit(f[0], 7) = 1 THEN f ELSE [k \in 0..0 |-> f[0]]

\* BurstEvents with the release inside the if of line 231
BurstEvents_HeldWhenIdle(f) ==
    assert_ncs \o delay(T_NCS_SCLK)
    \o transceive(MOTION_BURST) \o delay(T_SRAD_MOTBR)
    \o transceive(0)
    \o (IF Bit(f[0], 7) = 1
        THEN [k \in 1..(N - 1) |-> <<"xfer", 0>>] \o deassert_ncs
        ELSE <<>>)

\* the bus events of lines 221-243 when the sensor offers the frame f
BurstEvents(f) ==
    assert_ncs \o delay(T_NCS_SCLK)
    \o transceive(MOTION_BURST) \o delay(T_SRAD_MOTBR)
    \o transceive(0)
    \o (IF Bit(f[0], 7) = 1
        THEN [k \in 1..(N - 1) |-> <<"xfer", 0>>]
        ELSE <<>>)
    \o deassert_ncs

\* DeltaX without the test of the motion bit
DeltaX_Unchecked(f) == Int16LE(f[2], f[3])

\* lines 231-241
DeltaX(f) == IF Bit(f[0], 7) = 1 THEN Int16LE(f[2], f[3]) ELSE 0
DeltaY(f) == IF Bit(f[0], 7) = 1 THEN Int16LE(f[4], f[5]) ELSE 0

\* MotionPoll going straight on to do_usb_tasks
MotionPoll_NoUpdate ==
    /\ pc = "poll"
    /\ tick < MaxTicks
    /\ \E f \in Frames :
          /\ miso' = <<>> /\ v' = <<>> /\ delta_x' = 0 /\ delta_y' = 0
          /\ bus' = BurstEvents(f)
          /\ ncs' = LevelAfter(ncs, BurstEvents(f))
    /\ pc' = "usb"
    /\ tick' = tick + 1
    /\ trail' = <<"poll">>
    /\ UNCHANGED <<axesVars, hidVars, i, srom_data, resolution, axesHist, hidHist, scrollPin>>

\* lines 213-243: one motion burst; bus now holds this tick's events
MotionPoll ==
    /\ pc = "poll"
    /\ tick < MaxTicks
    /\ \E f \in Frames :
          /\ miso' = f
          /\ v' = Clocked(f)
          /\ delta_x' = DeltaX(f)
          /\ delta_y' = DeltaY(f)
          /\ bus' = BurstEvents(f)
          /\ ncs' = LevelAfter(ncs, BurstEvents(f))
    /\ pc' = "update"
    /\ tick' = tick + 1
    /\ trail' = <<"poll">>
    /\ UNCHANGED <<axesVars, hidVars, i, srom_data, resolution, axesHist, hidHist, scrollPin>>

\* lines 247-253; v, delta_x and delta_y are not used after this
UpdateAxes ==
    /\ pc = "update"
    /\ \E pind \in LoopInputs :
          /\ update_axes(delta_x, delta_y, Bit(pind, SCROLL_BUTTON) = 0)
          /\ scrollPin' = Bit(pind, SCROLL_BUTTON)
    /\ pc' = "usb"
    /\ miso' = <<>> /\ v' = <<>> /\ delta_x' = 0 /\ delta_y' = 0
    /\ trail' = trail \o <<"scroll", "accumulate">>
    /\ UNCHANGED <<hidVars, i, ncs, bus, srom_data, tick, resolution, axesHist, hidHist>>

\* what the two halves of do_usb_tasks leave alone
UsbOnly == UNCHANGED <<i, ncs, bus, srom_data, miso, v, delta_x, delta_y, tick,
                       resolution, axesHist, hidHist, scrollPin>>

\* line 254, do_usb_tasks, usb.c line 505: the HID task calls
\* CALLBACK_HID_Device_CreateHIDReport for an input report when the host
\* has collected the previous one and a new frame has begun, or not at all
HID_Device_USBTask ==
    /\ pc = "usb"
    /\ \/ UNCHANGED <<axesVars, hidVars, trail>>
       \/ /\ \E pind \in LoopInputs : \E p \in AxesOut(axes) : InputReport(pind, p)
          /\ trail' = trail \o <<"debounce", "handoff">>
    /\ pc' = "control"
    /\ UsbOnly

\* line 254, do_usb_tasks, usb.c line 506: the control endpoint serves a
\* GetReport request of the host, for the input or the feature report, if
\* one has arrived
USB_USBTask ==
    /\ pc = "control"
    /\ \/ UNCHANGED <<axesVars, hidVars, trail>>
       \/ /\ \E pind \in LoopInputs : \E p \in AxesOut(axes) : InputReport(pind, p)
          /\ trail' = trail \o <<"debounce", "handoff">>
       \/ FeatureReport /\ UNCHANGED trail
    /\ pc' = "poll"
    /\ UsbOnly

Next ==
    \/ ShutDown
    \/ WakeUp
    \/ ReadMotionRegister
    \/ EnableSrom
    \/ SromBegin
    \/ SromByte
    \/ SromEnd
    \/ ReadSromId
    \/ Configure
    \/ EnableBurst
    \/ MotionPoll
    \/ UpdateAxes
    \/ HID_Device_USBTask
    \/ USB_USBTask

Spec == Init /\ [][Next]_vars

----------------------------------------------------------------------------
(* The accumulators alone: update_axes as the poll loop calls it, with any  *)
(* of DeltaPairs as the tick's sample, and get_axes as the input-report     *)
(* callback calls it, with no button down.                                  *)

\* samples (delta_x, delta_y): a step, a count that scales past 1, the extremes
DeltaPairs == { <<-1, 2>>, <<84, -84>>, <<32767, -32768>>, <<-250, 3>> }

\* PIND with no button down
PindIdle == 255 - 2 ^ BUTTON_GROUND

\* the history of the interval that ends with the next get_axes
Since == IF lastOp = "get" THEN Zero4 ELSE rawSince
Before == IF lastOp = "get" THEN axes ELSE resBefore

AddPair(h, dx, dy, scroll) ==
    LET b == IF scroll THEN 2 ELSE 0
    IN  [h EXCEPT ![b] = @ + dx, ![b + 1] = @ + dy]

\* the accumulator the sign-flip claim compares with: it keeps the total of
\* the raw deltas, in the units of axes[k], with pointer-Y negated as it is
\* added
RefAdd(r, dx, dy, scroll) ==
    LET b == IF scroll THEN 2 ELSE 0
    IN  [r EXCEPT ![b] = @ + Num(b) * dx,
                  ![b + 1] = @ + Num(b + 1) * (IF b + 1 = 1 THEN -dy ELSE dy)]

\* ... and splits the total as it stands, keeping the remainder
RefInt(r) == [k \in Axis |-> TruncDiv(r[k], Den(k))]
RefRest(r) == [k \in Axis |-> r[k] - RefInt(r)[k] * Den(k)]

AxesUpdate ==
    /\ ncalls < MaxCalls
    /\ \E d \in DeltaPairs, scroll \in BOOLEAN :
          /\ update_axes(d[1], d[2], scroll)
          /\ rawSince' = AddPair(Since, d[1], d[2], scroll)
          /\ sumRaw' = AddPair(sumRaw, d[1], d[2], scroll)
          /\ nonNeg' = LET b == IF scroll THEN 2 ELSE 0
                       IN  [nonNeg EXCEPT ![b] = @ /\ d[1] >= 0,
                                          ![b + 1] = @ /\ d[2] >= 0]
          /\ ref' = RefAdd(ref, d[1], d[2], scroll)
    /\ refInt' = refInt
    /\ resBefore' = Before
    /\ ncalls' = ncalls + 1
    /\ lastOp' = "update"
    /\ UNCHANGED <<hidVars, mainVars, sumRep, hidHist, mainHist>>

AxesGet ==
    /\ ncalls < MaxCalls
    /\ \E p \in AxesOut(axes) :
          /\ InputReport(PindIdle, p)
          /\ sumRep' = [k \in Axis |-> sumRep[k] + p[k]]
    /\ refInt' = RefInt(ref)
    /\ ref' = RefRest(ref)
    /\ nonNeg' = nonNeg
    /\ rawSince' = Since
    /\ resBefore' = Before
    /\ ncalls' = ncalls + 1
    /\ lastOp' = "get"
    /\ UNCHANGED <<mainVars, sumRaw, hidHist, mainHist>>

\* in the poll loop; the bus side is left out
InitAxes == InitWith(<<>>, "poll")

NextAxes == AxesUpdate \/ AxesGet

SpecAxes == InitAxes /\ [][NextAxes]_vars

----------------------------------------------------------------------------
(* The input-report callback alone: polled with any of PINDInputs, with   *)
(* at most one update_axes of the poll loop between two polls.             *)

\* the run length and poll count are followed up to here
RunCap == DEBOUNCE_INTERVAL + 3

Min(a, b) == IF a < b THEN a ELSE b

\* Shape of the raw mask history.
\*   flip: "steady"  every sample so far was the initial stable mask 0
\*         "held"    some samples of 0, then only samples of lastB # 0
\*         "broken"  anything else
\*   osc:  "empty"   no sample yet
\*         "one"     one sample
\*         "alt"     two or more samples, alternating between prevB and lastB
\*         "broken"  anything else
NextShape(b) ==
    [flip |-> CASE shape.flip = "steady" -> IF b = 0 THEN "steady" ELSE "held"
                [] shape.flip = "held" -> IF b = lastB THEN "held" ELSE "broken"
                [] OTHER -> "broken",
     osc |-> CASE shape.osc = "empty" -> "one"
               [] shape.osc = "one" -> IF b # lastB THEN "alt" ELSE "broken"
               [] shape.osc = "alt" -> IF b = shape.prevB THEN "alt" ELSE "broken"
               [] OTHER -> "broken",
     prevB |-> lastB]

\* samples (delta_x, delta_y) that move the pointer by three counts along
\* one axis and leave no remainder (250 * 0.012 = 3)
HidDeltas == { <<250, 0>>, <<0, -250>> }

\* the poll loop's update_axes, once since the last poll at most
HidMotion ==
    /\ lastOp # "update"
    /\ \E d \in HidDeltas : update_axes(d[1], d[2], FALSE)
    /\ lastOp' = "update"
    /\ UNCHANGED <<hidVars, mainVars, rawSince, resBefore, sumRaw, sumRep, ncalls,
                   nonNeg, ref, refInt, hidHist, mainHist>>

HidPoll ==
    /\ \E pind \in PINDInputs : \E p \in AxesOut(axes) :
          /\ InputReport(pind, p)
          /\ LET b == ReadButtons(pind)
                 same == npolls > 0 /\ b = lastB
             IN  /\ lastB' = b
                 /\ runLen' = IF same THEN Min(runLen + 1, RunCap) ELSE 1
                 /\ runOld' = IF same THEN runOld ELSE old_buttons
                 /\ shape' = NextShape(b)
    /\ npolls' = Min(npolls + 1, RunCap)
    /\ nchanges' = Min(nchanges + (IF old_buttons' # old_buttons THEN 1 ELSE 0), 2)
    /\ prevOld' = old_buttons
    /\ lastOp' = "get"
    /\ UNCHANGED <<mainVars, rawSince, resBefore, sumRaw, sumRep, ncalls,
                   nonNeg, ref, refInt, mainHist>>

HidFeature ==
    /\ FeatureReport
    /\ UNCHANGED <<mainVars, axesHist, hidHist, mainHist>>

\* in the poll loop; the bus side is left out
InitHid == InitWith(<<>>, "poll")

NextHid == HidMotion \/ HidPoll \/ HidFeature

SpecHid == InitHid /\ [][NextHid]_vars

----------------------------------------------------------------------------
(* Claims about the accumulators (SpecAxes) *)

\* the scaled total get_axes split, over Den(k), rebuilt from the history
TotalBefore(k) == Flip(k) * (resBefore[k] + Num(k) * rawSince[k])

\* C1: after every get_axes, on each axis, reported delta + residual after
\* = sensitivity * (raw deltas since the previous get_axes) + residual
\* before, residuals in scaled units with the pointer-Y flip applied
\* (all terms multiplied by Den(k)).
C1_Conservation ==
    lastOp = "get" =>
        \A k \in Axis :
            report.axes[k] * Den(k) + Scaled(axes, k)
                = Flip(k) * Num(k) * rawSince[k] + Scaled(resBefore, k)

\* C6: every delta get_axes emits is the scaled total, truncated towards
\* zero and clamped to -32768..32767.
C6_Clamped ==
    lastOp = "get" =>
        \A k \in Axis : report.axes[k] = Sat16(TruncDiv(TotalBefore(k), Den(k)))

\* C7: after any number of get_axes calls, on each axis, the sum of the
\* reported deltas is within one unit of truncate(sensitivity * sum of the
\* raw deltas).
C7_NoMotionLost ==
    lastOp = "get" =>
        \A k \in Axis :
            Abs(sumRep[k] - TruncDiv(Flip(k) * Num(k) * sumRaw[k], Den(k))) <= 1

----------------------------------------------------------------------------
(* Claims about the debouncer (SpecHid) *)

\* C2: the stable mask changes at a poll only if the raw mask equalled the
\* new stable mask on DEBOUNCE_INTERVAL + 1 consecutive polls ending at
\* that poll.
C2_ChangeNeedsFullRun ==
    [][old_buttons' # old_buttons =>
          (lastB' = old_buttons' /\ runLen' >= DEBOUNCE_INTERVAL + 1)]_vars

\* C3: when the raw mask takes a value different from the stable mask and
\* keeps it, the stable mask is that value at the latest on the
\* (DEBOUNCE_INTERVAL + 1)-th poll of the run.
C3_HeldPressAccepted ==
    (runLen = DEBOUNCE_INTERVAL + 1 /\ runOld # lastB) => old_buttons = lastB

\* C4: when the raw mask leaves the initial stable mask once and holds, the
\* stable mask changes exactly once, at the (DEBOUNCE_INTERVAL + 1)-th
\* sample of the new value, and the changed flag is raised at that poll
\* and at no other.
C4_SingleFlip ==
    /\ shape.flip = "steady" => (old_buttons = 0 /\ nchanges = 0 /\ ~changed)
    /\ shape.flip = "held" =>
          /\ runLen < DEBOUNCE_INTERVAL + 1 =>
                (old_buttons = 0 /\ nchanges = 0 /\ ~changed)
          /\ runLen = DEBOUNCE_INTERVAL + 1 =>
                (old_buttons = lastB /\ nchanges = 1 /\ changed
                 /\ report.buttons = lastB /\ ret)
          /\ runLen > DEBOUNCE_INTERVAL + 1 =>
                (old_buttons = lastB /\ nchanges = 1 /\ ~changed)

\* C4 witness: the poll that accepts the held mask, reached after some
\* polls that sampled the stable mask
C4_Witness ==
    /\ shape.flip = "held" /\ runLen = DEBOUNCE_INTERVAL + 1
    /\ changed /\ old_buttons = lastB /\ lastB # 0 /\ npolls > runLen

\* C5: while the raw mask has alternated between two values on every poll,
\* the stable mask has not changed and the changed flag was never raised.
C5_Oscillation ==
    shape.osc \in {"one", "alt"} => (old_buttons = 0 /\ nchanges = 0 /\ ~changed)

\* C5 witness: an alternation between two masks, neither the stable one,
\* that has lasted more than DEBOUNCE_INTERVAL + 1 polls
C5_Witness ==
    /\ shape.osc = "alt" /\ npolls > DEBOUNCE_INTERVAL + 1
    /\ lastB # 0 /\ shape.prevB # 0 /\ debounce_count = 2

----------------------------------------------------------------------------
(* Claims about the motion burst and the firmware upload (Spec) *)

\* the bytes clocked out by the events t, in order
Xfers(t) == SelectSeq(t, LAMBDA e : e[1] = "xfer")

\* the state right after a motion burst
Polled == pc = "update"

\* C8: when the first byte of the burst has bit 7 clear, delta_x = delta_y
\* = 0 whatever the sensor had to offer, no byte beyond the first is
\* clocked, chip-select is released, and update_axes leaves every
\* accumulator as it was.
C8_NoMotionShortCircuit ==
    /\ [](Polled /\ Bit(miso[0], 7) = 0 =>
            /\ delta_x = 0 /\ delta_y = 0
            /\ DOMAIN v = {0}
            /\ Xfers(bus) = << <<"xfer", MOTION_BURST>>, <<"xfer", 0>> >>
            /\ bus[Len(bus)] = <<"ncs", 1>>
            /\ ncs = 1)
    /\ [][Polled /\ Bit(miso[0], 7) = 0 => axes' = axes]_vars

\* C8 witness: a burst whose first byte is 0x7f while the rest of the frame
\* carries motion, polled when the accumulators already hold something
C8_Witness ==
    /\ Polled /\ miso[0] = 127 /\ miso[2] = 52 /\ miso[5] = 171
    /\ axes # Zero4

\* C9: when the first byte of the burst has bit 7 set, the burst clocks the
\* command and then exactly N = 6 zero bytes before chip-select is
\* released, and delta_x, delta_y are the signed 16-bit values whose low
\* and high bytes are v[2], v[3] and v[4], v[5].
C9_BurstDecode ==
    Polled /\ Bit(miso[0], 7) = 1 =>
        /\ Xfers(bus) = << <<"xfer", MOTION_BURST>> >> \o [k \in 1..6 |-> <<"xfer", 0>>]
        /\ bus[Len(bus)] = <<"ncs", 1>>
        /\ Cardinality({k \in 1..Len(bus) : bus[k][1] = "ncs"}) = 2
        /\ ncs = 1
        /\ v = miso
        /\ delta_x \in Int16 /\ delta_y \in Int16
        /\ (delta_x - (miso[2] + 256 * miso[3])) % 65536 = 0
        /\ (delta_y - (miso[4] + 256 * miso[5])) % 65536 = 0

\* C9 witness: the frame with 0x1234 and 0xabcd decoded
C9_Witness ==
    /\ Polled /\ miso[0] = 128
    /\ delta_x = 4660 /\ delta_y = -21555

\* the places of the burst-load command in the bus history
UploadCommands == {u \in 1..Len(bus) : bus[u] = <<"xfer", 226>>}

\* the bus still holds the history of the whole bring-up
BroughtUp == pc \in {"configure", "burst_enable"}

\* C10: the upload of an image of length L is one chip-select assertion
\* holding the burst-load command and then L exchanges carrying bytes
\* 0..L-1 of the image in order, each right after one 15 us delay; a 15 us
\* delay precedes the deselect, and a 185 us delay precedes the next
\* register access.
C10_Upload ==
    BroughtUp =>
        /\ Cardinality(UploadCommands) = 1
        /\ LET u == CHOOSE c \in UploadCommands : TRUE
               L == Len(srom_data)
           IN  /\ bus[u - 2] = <<"ncs", 0>>
               /\ bus[u - 1] = <<"delay", T_NCS_SCLK>>
               /\ \A k \in 1..L :
                     /\ bus[u + 2 * k - 1] = <<"delay", 15000>>
                     /\ bus[u + 2 * k] = <<"xfer", srom_data[k]>>
               /\ bus[u + 2 * L + 1] = <<"delay", 15000>>
               /\ bus[u + 2 * L + 2] = <<"ncs", 1>>
               /\ bus[u + 2 * L + 3] = <<"delay", 185000>>
               /\ bus[u + 2 * L + 4] = <<"ncs", 0>>
               /\ bus[u + 2 * L + 6] = <<"xfer", SROM_ID>>

\* C10 witness: the longest image, uploaded
C10_Witness ==
    /\ BroughtUp /\ Len(srom_data) = MaxSromLen /\ Len(srom_data) >= 2
    /\ srom_data[1] # srom_data[2]

----------------------------------------------------------------------------
(* Claims about the bus as a sequence of transactions (Spec) *)

\* the places of the chip-select assertions in the events t
Selects(t) == {k \in 1..Len(t) : t[k] = <<"ncs", 0>>}

\* the place of the n-th chip-select assertion in t
NthSelect(t, n) ==
    CHOOSE k \in Selects(t) : Cardinality({j \in Selects(t) : j < k}) = n - 1

\* the place of the release that ends the transaction selected at k, or
\* Len(t) + 1 while the transaction is open
ReleaseOf(t, k) ==
    LET later == {j \in (k + 1)..Len(t) : t[j] = <<"ncs", 1>>}
    IN  IF later = {} THEN Len(t) + 1
        ELSE CHOOSE j \in later : \A j2 \in later : j <= j2

\* the events of the transaction selected at k, select and release included
EventsOf(t, k) ==
    SubSeq(t, k, IF ReleaseOf(t, k) > Len(t) THEN Len(t) ELSE ReleaseOf(t, k))

\* the bytes exchanged in the transaction selected at k
BytesOf(t, k) ==
    LET x == Xfers(EventsOf(t, k)) IN [n \in 1..Len(x) |-> x[n][2]]

\* the transactions of t in order, each as the bytes it exchanged
Transactions(t) ==
    [n \in 1..Cardinality(Selects(t)) |-> BytesOf(t, NthSelect(t, n))]

\* the transactions of the bring-up, for the firmware image img
BringUpSteps(img) ==
    << <<SHUTDOWN + 128, 182>>,
       <<POWER_UP_RESET + 128, 90>>,
       <<2, 0>>, <<3, 0>>, <<4, 0>>, <<5, 0>>, <<6, 0>>,
       <<CONFIG2 + 128, 0>>,
       <<SROM_ENABLE + 128, 29>>,
       <<SROM_ENABLE + 128, 24>>,
       <<SROM_LOAD_BURST + 128>> \o img,
       <<SROM_ID, 0>>,
       <<CONFIG2 + 128, 0>> >>

\* a is b cut short: a's transactions are b's first ones, the last of them
\* possibly still under way
CutShort(a, b) ==
    /\ Len(a) <= Len(b)
    /\ \A n \in 1..Len(a) :
          IF n < Len(a) THEN a[n] = b[n]
          ELSE /\ Len(a[n]) <= Len(b[n])
               /\ a[n] = SubSeq(b[n], 1, Len(a[n]))

\* the places of the 10 ms settle delay in the bus log
Settles == {d \in 1..Len(bus) : bus[d] = <<"delay", 10000000>>}

\* C11: the bring-up is one fixed sequence of transactions, none retried,
\* skipped or repeated: shutdown write, power-up-reset write, one read of
\* each of the registers 2..6, override-disable write, firmware-load-enable
\* write, the 10 ms settle, firmware-load-ready write, the firmware burst,
\* the identifier read, the override-clear write.  Until the first poll the
\* bus has carried a beginning of that sequence and nothing else; once
\* reset() has returned it has carried all of it; and the poll loop runs
\* only after it, the bring-up places never being entered again.
C11_BringUpOnce ==
    /\ tick = 0 =>
          LET done == Transactions(bus)
              steps == BringUpSteps(srom_data)
          IN  /\ CutShort(done, steps) \/ CutShort(steps, done)
              /\ ncs = 1 /\ Len(done) <= Len(steps) => done = SubSeq(steps, 1, Len(done))
              /\ pc \in {"configure", "burst_enable", "poll"} =>
                    /\ SubSeq(done, 1, Len(steps)) = steps
                    /\ Cardinality(Settles) = 1
                    /\ \A d \in Settles : NthSelect(bus, 9) < d /\ d < NthSelect(bus, 10)
    /\ tick > 0 => pc \in {"poll", "update", "usb", "control"}

\* C11 witness: reset() has just returned after uploading an image of the
\* greatest length
C11_Witness ==
    /\ pc = "configure"
    /\ Len(srom_data) = MaxSromLen
    /\ Len(Transactions(bus)) = 13

----------------------------------------------------------------------------
(* Claims about the poll loop (Spec) *)

\* a tick has run to its end
TickDone == pc = "poll" /\ tick > 0

\* the steps of a tick up to the call of do_usb_tasks
Sampled == <<"poll", "scroll", "accumulate">>

\* t is n button-debouncer steps, each followed by its hand-off
Reports(t, n) ==
    /\ Len(t) = 2 * n
    /\ \A k \in 1..n : t[2 * k - 1] = "debounce" /\ t[2 * k] = "handoff"

\* C12 as stated: every tick is motion poll, scroll-mode flag, accumulation,
\* one debouncer step and one hand-off, in this order.
C12_EveryTickReports ==
    TickDone => trail = Sampled \o <<"debounce", "handoff">>

\* C12 amended: every tick begins with motion poll, scroll-mode flag and
\* accumulation, once each and in this order, before do_usb_tasks runs; the
\* debouncer steps of the tick, each with its hand-off, come after them
\* and number none, one or two, as the host asks for input reports.
C12_TickOrder ==
    /\ pc = "update" => trail = <<"poll">>
    /\ pc = "usb" => trail = Sampled
    /\ pc = "control" \/ TickDone =>
          /\ Len(trail) >= 3
          /\ SubSeq(trail, 1, 3) = Sampled
          /\ \E n \in 0..2 : Reports(SubSeq(trail, 4, Len(trail)), n)
    /\ pc = "control" => Len(trail) <= 5

\* C12 witness: the second tick has ended, the callback ran twice in it and
\* the debouncer counted both runs
C12_Witness ==
    /\ TickDone /\ tick = 2
    /\ Len(trail) = 7
    /\ debounce_count = 2

\* the raw count the step adds to accumulator k
RawAdded(k) == (axes'[k] - axes[k]) \div Num(k)

\* C13: the accumulation step of a tick adds the tick's dx/dy to the wheel
\* accumulators and leaves the pointer accumulators as they were when the
\* scroll pin was sampled low in this tick, and adds them to the pointer
\* accumulators and leaves the wheel accumulators as they were when it was
\* sampled high; nothing but the level sampled in this tick decides.
C13_ScrollRouting ==
    [][pc = "update" =>
          /\ \A k \in Axis : axes'[k] - axes[k] = Num(k) * RawAdded(k)
          /\ IF scrollPin' = 0
             THEN /\ RawAdded(2) = delta_x /\ RawAdded(3) = delta_y
                  /\ axes'[0] = axes[0] /\ axes'[1] = axes[1]
             ELSE /\ RawAdded(0) = delta_x /\ RawAdded(1) = delta_y
                  /\ axes'[2] = axes[2] /\ axes'[3] = axes[3]]_vars

\* C13 witness: the second tick sampled the pin high and added to the
\* pointer while the wheel still holds what the first tick, which sampled
\* it low, added
C13_Witness ==
    /\ pc = "usb" /\ tick = 2
    /\ scrollPin = 1
    /\ axes[0] # 0 /\ axes[1] # 0
    /\ axes[2] # 0 /\ axes[3] # 0

----------------------------------------------------------------------------
(* Claims about the report (SpecHid) *)

\* C14: after every input-report call, the returned flag is true exactly
\* when the call changed the stable mask or wrote a nonzero delta (for a
\* call that changed nothing it is the result of get_axes: true exactly
\* when one of the four deltas is nonzero), and the button field of the
\* report is the stable mask as the call left it.
C14_ReportFlags ==
    npolls > 0 /\ lastOp = "get" =>
        /\ ret = (old_buttons # prevOld \/ \E k \in Axis : report.axes[k] # 0)
        /\ report.buttons = old_buttons

\* C14 witness: a call that accepted a new mask and emitted no motion, so
\* that the flag is true for the mask alone
C14_Witness ==
    /\ lastOp = "get"
    /\ old_buttons # prevOld
    /\ report.axes = Zero4
    /\ report.buttons = 3
    /\ ret

----------------------------------------------------------------------------
(* Claims about the framing of transactions (Spec) *)

\* the chip-select assertions whose transaction has ended
Ended == {k \in Selects(bus) : ReleaseOf(bus, k) <= Len(bus)}

\* the transaction selected at k turns round after its first byte for
\* t_SRAD: a register read
IsRegisterRead(k) == EventsOf(bus, k)[4] = <<"delay", T_SRAD>>

\* the transaction selected at k sends its second byte right after the
\* first: a register write
IsRegisterWrite(k) == EventsOf(bus, k)[4][1] = "xfer"

\* C15: every register write clocks out exactly two bytes, the address with
\* bit 7 set and then the value; every register read clocks out the
\* address with bit 7 clear and then one zero byte; and a transaction
\* whose first byte has bit 7 set is a write: a register write or the
\* burst-load write of the firmware upload.
C15_RegisterFraming ==
    \A k \in Ended :
        LET b == BytesOf(bus, k)
        IN  /\ IsRegisterWrite(k) => Len(b) = 2 /\ Bit(b[1], 7) = 1
            /\ IsRegisterRead(k) => Len(b) = 2 /\ Bit(b[1], 7) = 0 /\ b[2] = 0
            /\ Bit(b[1], 7) = 1 =>
                  \/ IsRegisterWrite(k)
                  \/ /\ b[1] = SROM_LOAD_BURST + 128
                     /\ SubSeq(b, 2, Len(b)) = srom_data

\* C15 witness: bring-up and configuration are over, with their six
\* register reads, ten register writes and one upload on the log
C15_Witness ==
    /\ pc = "poll" /\ tick = 0
    /\ Cardinality({k \in Ended : IsRegisterRead(k)}) = 6
    /\ Cardinality({k \in Ended : IsRegisterWrite(k)}) = 10
    /\ Cardinality(Ended) = 17

----------------------------------------------------------------------------
(* Claims about chip-select (Spec) *)

\* the level of PINSS just before event x of the log; the log begins, at
\* start-up and at every motion burst, with PINSS released
LevelBefore(x) == LevelAfter(1, SubSeq(bus, 1, x - 1))

\* C16: a byte is exchanged only while chip-select is asserted; every
\* assertion is made from the released level and is followed by the
\* t_NCS-SCLK delay and then the first exchange; every transaction ends
\* with the release, so that chip-select is released in every place
\* outside a transaction: everywhere but inside the firmware upload, and
\* in particular after a motion burst of either branch and while the USB
\* tasks run.
C16_ChipSelect ==
    /\ \A x \in 1..Len(bus) : bus[x][1] = "xfer" => LevelBefore(x) = 0
    /\ \A k \in Selects(bus) :
          /\ LevelBefore(k) = 1
          /\ k + 2 <= Len(bus)
          /\ bus[k + 1] = <<"delay", T_NCS_SCLK>>
          /\ bus[k + 2][1] = "xfer"
    /\ ncs = LevelAfter(1, bus)
    /\ ncs = 0 <=> pc \in {"srom_byte", "srom_end"}
    /\ pc \in {"update", "usb", "control"} \/ TickDone =>
          /\ Selects(bus) \subseteq Ended
          /\ bus[Len(bus)] = <<"ncs", 1>>

\* C16 witness: the USB tasks are running after a burst that stopped at its
\* first byte, and chip-select is released
C16_Witness ==
    /\ pc = "control"
    /\ Len(Xfers(bus)) = 2
    /\ ncs = 1

----------------------------------------------------------------------------
(* The resolution registers alone: main() from the return of reset() to the *)
(* end of the configuration writes, for every RESOLUTION that config.h may *)
(* hold: a multiple of 50 whose fiftieth fits 16 bits.                     *)

Resolutions == {50 * k : k \in 0..65535}

InitRes ==
    /\ resolution \in Resolutions
    /\ InitBut(<<>>, "configure")

NextRes == Configure

SpecRes == InitRes /\ [][NextRes]_vars

\* (uint16_t)read(RESOLUTION_H) << 8 | read(RESOLUTION_L), lines 207-208,
\* when the reads return h and l
ReadBack(h, l) == ((h * 256) % 65536) + l

\* the register writes to the address addr on the log
WritesTo(addr) ==
    {k \in Ended : IsRegisterWrite(k) /\ BytesOf(bus, k)[1] = addr + 128}

\* what the register addr holds: the value of the last write to it
Held(addr) ==
    LET last == CHOOSE k \in WritesTo(addr) : \A k2 \in WritesTo(addr) : k2 <= k
    IN  BytesOf(bus, last)[2]

\* C17: once the configuration writes are made, each resolution register
\* has been written once, the low one first, and reading the two back as
\* (high << 8) | low gives RESOLUTION / 50 exactly.
C17_ResolutionRoundTrip ==
    pc = "burst_enable" =>
        /\ Cardinality(WritesTo(RESOLUTION_L)) = 1
        /\ Cardinality(WritesTo(RESOLUTION_H)) = 1
        /\ \A l \in WritesTo(RESOLUTION_L), h \in WritesTo(RESOLUTION_H) : l < h
        /\ ReadBack(Held(RESOLUTION_H), Held(RESOLUTION_L)) * 50 = resolution

\* C17 witness: a resolution whose fiftieth has both bytes nonzero and
\* different has been written
C17_Witness ==
    /\ pc = "burst_enable"
    /\ resolution = 50 * 4660
    /\ Held(RESOLUTION_L) = 52
    /\ Held(RESOLUTION_H) = 18

----------------------------------------------------------------------------
(* Claims about signs (SpecAxes) *)

\* the axes get_axes does not negate
Unflipped == {k \in Axis : Flip(k) = 1}

\* C18: on an axis that is not flipped, as long as every raw delta added
\* to it was non-negative, no reported delta is negative (and so the
\* cumulative reported total never decreases).
C18_NonNegative ==
    lastOp = "get" =>
        \A k \in Unflipped : nonNeg[k] => report.axes[k] >= 0 /\ sumRep[k] >= 0

\* C20: what get_axes emits on each axis is the integer part taken by the
\* accumulator that negates pointer-Y deltas as it adds them and no other
\* (converted to int16_t); and between calls the implementation's totals
\* are that accumulator's, pointer-Y with the opposite sign and pointer-X
\* and the wheels as they are.
C20_SignFlip ==
    /\ axes[1] = -ref[1]
    /\ \A k \in Axis \ {1} : axes[k] = ref[k]
    /\ lastOp = "get" => \A k \in Axis : report.axes[k] \in CastInt16(refInt[k])

\* C20 witness: a get_axes that emitted a pointer-Y delta made up in part of
\* a remainder carried back, negated, by an earlier get_axes that emitted
\* one too
C20_Witness ==
    /\ lastOp = "get"
    /\ report.axes[1] # 0
    /\ sumRep[1] # report.axes[1]
    /\ resBefore[1] # 0
    /\ resBefore[1] + Num(1) * rawSince[1] # 0
    /\ Abs(Num(1) * rawSince[1]) < Den(1)

----------------------------------------------------------------------------
(* Claims about the restart of the debouncer (SpecHid) *)

\* C19: while the debouncer is debouncing, the candidate is the mask the
\* last poll sampled and the counter is the number of consecutive polls
\* that sampled it: a poll whose sample differs from the candidate in
\* flight records the sample as the candidate and sets the counter to 1.
C19_RestartTakesSample ==
    npolls > 0 /\ debounce_count > 0 =>
        /\ new_buttons = lastB
        /\ debounce_count = runLen

----------------------------------------------------------------------------
(* Invariants of the debouncer (SpecHid) *)

\* C21: whenever the counter is nonzero the candidate differs from the
\* stable mask; so a call that accepts a candidate changes the stable
\* mask, and the report it produces carries a mask other than the one
\* that was stable before the call.
C21_CandidateDiffers ==
    /\ debounce_count > 0 => new_buttons # old_buttons
    /\ npolls > 0 /\ changed =>
          /\ old_buttons # prevOld
          /\ report.buttons # prevOld

\* C21 witness: the second acceptance of the run, back to no button down,
\* by the call that has just returned
C21_Witness ==
    /\ lastOp = "get" /\ changed
    /\ nchanges = 2
    /\ prevOld # 0 /\ old_buttons = 0
    /\ debounce_count = 0

\* C22: after every call the counter is in 0..DEBOUNCE_INTERVAL, and a step
\* that takes it from a nonzero value to 0 is an acceptance: the call
\* raised the changed flag and made the candidate the stable mask.
C22_CounterRange ==
    /\ [](debounce_count \in 0..DEBOUNCE_INTERVAL)
    /\ [][debounce_count > 0 /\ debounce_count' = 0 =>
             /\ changed'
             /\ old_buttons' = new_buttons
             /\ old_buttons' # old_buttons]_vars

\* C22 witness: the raw mask has been back at the stable value for as many
\* polls as the history follows and the candidate is still in flight
C22_Witness ==
    /\ debounce_count > 0
    /\ lastB = old_buttons
    /\ runLen = RunCap
    /\ nchanges > 0

----------------------------------------------------------------------------
(* Invariants of the accumulators (SpecAxes) *)

\* the total accumulator k held when the last get_axes began, times its
\* sensitivity, as a numerator over Den(k)
HeldBefore(k) == resBefore[k] + Num(k) * rawSince[k]

\* C23: right after get_axes, on each axis, the residual times the
\* sensitivity is less than 1 in magnitude (axes[k] is its numerator over
\* Den(k)), and the residual is zero or has the sign of the total it was
\* split from.
C23_ResidualSmall ==
    lastOp = "get" =>
        \A k \in Axis :
            /\ Abs(axes[k]) < Den(k)
            /\ axes[k] > 0 => HeldBefore(k) > 0
            /\ axes[k] < 0 => HeldBefore(k) < 0

\* C23 witness: a get_axes that split a negative pointer-X total into a
\* negative delta and a negative residual, and left a positive residual
\* on pointer-Y
C23_Witness ==
    /\ lastOp = "get"
    /\ report.axes[0] < 0 /\ axes[0] < 0
    /\ axes[1] > 0

\* C24: a get_axes that follows a get_axes with no update_axes in between
\* writes four zero deltas, returns false, leaves every residual as it
\* was and adds nothing to what has been reported.
C24_DrainIdempotent ==
    [][lastOp = "get" /\ lastOp' = "get" =>
          /\ report'.axes = Zero4
          /\ ~ret'
          /\ axes' = axes
          /\ sumRep' = sumRep]_vars

\* C24 witness: the second of two get_axes calls in a row has returned,
\* the first having emitted motion and left a residual on every axis
C24_Witness ==
    /\ lastOp = "get"
    /\ rawSince = Zero4 /\ resBefore = axes
    /\ report.axes = Zero4 /\ ~ret
    /\ \A k \in Axis : axes[k] # 0 /\ sumRep[k] # 0
====
